---------------------------- MODULE Spec2Model ----------------------------
(***************************************************************************)
(* A model of the two components of the repository:                        *)
(*                                                                         *)
(*   PointStat<NumberType>  (src/pointbasedstat.hpp): a bounded stat whose *)
(*       maximum is a left fold of stacking modifiers over base_max_.      *)
(*   CustomSkill            (src/unnamed/part_000): a skill whose level is *)
(*       driven by points through one of eight growth formulas.            *)
(*                                                                         *)
(* PointStat is modelled at NumberType = a 16-bit unsigned integer, the    *)
(* narrowest type the PositiveNumber concept admits.  Arithmetic on        *)
(* NumberType is modulo 2^NumberBits.  The inputs are drawn from small     *)
(* sets that keep every product below 2^31, so the arithmetic is defined   *)
(* both for a promoted 16-bit type and for the wider unsigned types.       *)
(*                                                                         *)
(* CustomSkill works on uint16_t levels and factors, uint32_t amounts and  *)
(* uint64_t points.  The model keeps the three widths in the ratio 1:2:4   *)
(* and scales them down to LevelBits, 2*LevelBits and 4*LevelBits bits, so *)
(* that every narrowing, wraparound and saturation of the code happens     *)
(* within the integers the model checker can hold.                         *)
(*                                                                         *)
(* Three specifications share the variables:                               *)
(*   Spec         the operations of one PointStat;                         *)
(*   SkillSpec    the operations of one CustomSkill;                       *)
(*   FormulaSpec  evaluations of pointsRequired for a formula and factors. *)
(***************************************************************************)
EXTENDS Integers, Sequences, FiniteSets, TLC

VARIABLES
    \* ---- PointStat<NumberType> (src/pointbasedstat.hpp:406-409)
    modifiers_,     \* std::vector<std::unique_ptr<Modifier>>, insertion order
    handles_,       \* elem.get() of each stored modifier: the identity of the
                    \* Modifier object, numbered by the call that passed it
    current_,       \* NumberType
    base_max_,      \* NumberType
    max_,           \* NumberType
    constructed,    \* FALSE when the constructor threw: no object exists
    calls,          \* number of calls made on the object so far
    last,           \* the last PointStat call: its name, arguments, return
                    \* value (for addModifier: whether the modifier was
                    \* stored) and the state it was made in
    \* ---- CustomSkill (src/unnamed/part_000:234-241)
    current_points, \* uint64_t
    factor_x,       \* uint16_t
    factor_y,       \* uint16_t
    factor_z,       \* uint16_t
    current_level,  \* uint16_t
    bonus_level,    \* int16_t
    max_level,      \* uint16_t, 0: no cap
    formula,        \* FormulaType
    div_by_zero,    \* what an integer division by zero does in this build
    faulted,        \* TRUE once a division by zero has trapped
    skill_calls,    \* number of calls made on the skill so far
    skill_last,     \* the last CustomSkill call
    \* ---- an evaluation of pointsRequired
    eval_level,     \* the argument of the last evaluation
    eval_result     \* its result

statVars == <<modifiers_, handles_, current_, base_max_, max_, constructed,
              calls, last>>

configVars == <<factor_x, factor_y, factor_z, max_level, formula, div_by_zero>>

skillVars == <<current_points, current_level, bonus_level, faulted,
               skill_calls, skill_last>>

formulaVars == <<eval_level, eval_result>>

vars == <<statVars, configVars, skillVars, formulaVars>>

-----------------------------------------------------------------------------
(* NumberType                                                              *)

\* sizeof(T) >= 2: the narrowest admissible NumberType has 16 bits.
NumberBits == 16

\* std::numeric_limits<NumberType>::max()
NumberMax == 2^NumberBits - 1

NumberType == 0..NumberMax

\* Conversion of an integer to NumberType (unsigned wraparound).
ToNumber(n) == n % (NumberMax + 1)

-----------------------------------------------------------------------------
(* Bounds of the exploration                                               *)

\* Longest modifier collection explored.
MaxModifiers == 2

\* Longest sequence of calls made on one PointStat.
MaxCalls == 3

\* Arguments handed to the PointStat constructor (initial, max).
InitialValues == {50, 400}
MaxValues == {0, 100, 300, 65500}

\* Kinds and values handed to the Modifier constructor.
ModInputs ==
    {<<"Multiply", 0>>, <<"Multiply", 2>>, <<"Multiply", 300>>,
     <<"Divide", 0>>,   <<"Divide", 2>>,   <<"Divide", 300>>,
     <<"Add", 0>>,      <<"Add", 300>>,
     <<"Subtract", 0>>, <<"Subtract", 300>>}

\* Amounts handed to add() and remove().
PointValues == {60, 65535}

-----------------------------------------------------------------------------
(* Modifier                                                                *)

\* Modifier::Modifier: a zero multiplier or divider is replaced by 1.
Modifier(type, value, p_scale) ==
    [type_ |-> type,
     value_ |-> IF value = 0 /\ type \in {"Multiply", "Divide"} THEN 1 ELSE value,
     proportional_scaling_ |-> p_scale]

\* struct _apply_results
ApplyResults(val, success) == [_value |-> val, _success |-> success]

-----------------------------------------------------------------------------
(* The per-kind dispatch; mx is the value of max_ when it is called.       *)

canApplyMultiplier(modifier, mx) ==
    LET temp == ToNumber(modifier.value_ * mx)
    IN  IF temp < mx /\ modifier.value_ > 1
        THEN ApplyResults(0, FALSE)
        ELSE ApplyResults(temp, TRUE)

canApplyDivider(modifier, mx) ==
    IF modifier.value_ = 0
    THEN ApplyResults(0, FALSE)
    ELSE LET temp == mx \div modifier.value_
         IN  IF temp = 0 THEN ApplyResults(0, FALSE)
                         ELSE ApplyResults(temp, TRUE)

canApplyAdditive(modifier, mx) ==
    IF mx > NumberMax - modifier.value_
    THEN ApplyResults(0, FALSE)
    ELSE ApplyResults(ToNumber(mx + modifier.value_), TRUE)

canApplySubtractive(modifier, mx) ==
    IF modifier.value_ >= mx
    THEN ApplyResults(0, FALSE)
    ELSE LET temp == ToNumber(mx - modifier.value_)
         IN  IF temp = 0 THEN ApplyResults(0, FALSE)
                         ELSE ApplyResults(temp, TRUE)

\* PointStat::applyModifier: the candidate maximum, 0 when rejected.
applyModifier(modifier, mx) ==
    LET results ==
            CASE modifier.type_ = "Multiply" -> canApplyMultiplier(modifier, mx)
              [] modifier.type_ = "Divide"   -> canApplyDivider(modifier, mx)
              [] modifier.type_ = "Add"      -> canApplyAdditive(modifier, mx)
              [] modifier.type_ = "Subtract" -> canApplySubtractive(modifier, mx)
              [] OTHER                       -> ApplyResults(0, FALSE)
    IN  IF results._success THEN results._value ELSE 0

\* RecalculateStep without the test of line 299: a rejected candidate (0)
\* is stored as the maximum.
RecalculateStepUnchecked(mod, mx) == applyModifier(mod, mx)

\* One iteration of the loop of recalculateMax: a rejected modifier leaves
\* the running maximum as it is.
RecalculateStep(mod, mx) ==
    LET result == applyModifier(mod, mx)
    IN  IF result > 0 THEN result ELSE mx

RECURSIVE RecalculateFrom(_, _)
RecalculateFrom(mods, mx) ==
    IF mods = <<>> THEN mx
    ELSE RecalculateFrom(Tail(mods), RecalculateStep(Head(mods), mx))

\* recalculateMax without the reset of line 296: the fold starts from the
\* maximum in force instead of base_max_.
recalculateMaxNoReset(mods, base) == RecalculateFrom(mods, max_)

\* PointStat::recalculateMax: the new max_ for a collection and base_max_.
recalculateMax(mods, base) == RecalculateFrom(mods, base)

-----------------------------------------------------------------------------
(* Proportional scaling:                                                   *)
(*     double ratio = static_cast<double>(current_) / start;               *)
(*     current_ = static_cast<NumberType>(ratio * max_);                   *)
(* The exact value current_ * max_ / start is computed in two halves so    *)
(* that no intermediate exceeds 31 bits.                                   *)

\* floor(c * m / s) as hi * half + lo, and whether the division is exact.
ScaleParts(c, s, m, half) ==
    LET t1   == c * (m \div half)
        r1   == t1 % s
        rest == r1 * half + c * (m % half)
    IN  [hi |-> t1 \div s, lo |-> rest \div s, exact |-> rest % s = 0]

\* floor(log2(c / s)) for c, s > 0: the binary exponent of the double ratio.
RECURSIVE RatioExponent(_, _, _)
RatioExponent(c, s, f) ==
    IF c < s THEN RatioExponent(2 * c, s, f - 1)
    ELSE IF c >= 2 * s THEN RatioExponent(c, 2 * s, f + 1)
    ELSE f

\* (x * 2^k) % s, eight doublings at a time.
RECURSIVE ShiftMod(_, _, _)
ShiftMod(x, k, s) ==
    IF k = 0 THEN x
    ELSE IF k >= 8 THEN ShiftMod((x * 256) % s, k - 8, s)
    ELSE ShiftMod((x * 2) % s, k - 1, s)

\* The exponent e with 2^e < q <= 2^(e+1), for q >= 1.
RECURSIVE ProductExponent(_, _)
ProductExponent(q, e) ==
    IF 2^(e + 1) < q THEN ProductExponent(q, e + 1) ELSE e

\* a * b as <<high, low>> in base 512, for a < 2^16 and b < 2^19.
Wide(a, b) ==
    LET part == a * (b % 512)
    IN  <<a * (b \div 512) + part \div 512, part % 512>>

WideGreater(v, w) == v[1] > w[1] \/ (v[1] = w[1] /\ v[2] > w[2])

\* IEEE-754 binary64, round to nearest: the ratio c / s is rounded to 53
\* significant bits; when it is rounded down by the fraction rem / s of its
\* last place and the exact product c * m / s is the integer q, the double
\* product is the double just below q exactly when
\*     rem * m > s * 2^(e - f - 1),
\* with f and e the binary exponents of the ratio and of q.
RoundsBelow(c, s, m, q) ==
    LET f   == RatioExponent(c, s, 0)
        rem == ShiftMod(c % s, 52 - f, s)
        e   == ProductExponent(q, 0 - 1)
    IN  /\ rem # 0
        /\ 2 * rem < s
        /\ WideGreater(Wide(rem, 4 * m), Wide(s, 2^(e - f + 1)))

\* static_cast<T>((double(c) / s) * m) for an unsigned type T with largest
\* value half * half - 1.  An exact product that is not an integer lies at
\* least 1/s from the next integer, so the cast truncates to its floor; an
\* integral product may be reached from below (RoundsBelow), and the cast
\* then yields one less.  A product outside T makes the cast undefined: the
\* value wrapped, 0 and the saturated value are the results builds produce.
CastOutcomes(c, s, m, half) ==
    IF s = 0 THEN {0, half * half - 1}
    ELSE LET p == ScaleParts(c, s, m, half)
         IN  IF p.hi > half \/ (p.hi = half /\ p.lo > 0)
             THEN {((p.hi % half) * half + p.lo) % (half * half), 0, half * half - 1}
             ELSE LET q == p.hi * half + p.lo
                  IN  IF p.exact /\ q > 0 /\ RoundsBelow(c, s, m, q)
                      THEN {q - 1}
                      ELSE IF q > half * half - 1
                      THEN {q % (half * half), 0, half * half - 1}
                      ELSE {q}

\* static_cast<NumberType>(ratio * m)
TruncOutcomes(c, s, m) == CastOutcomes(c, s, m, 2^(NumberBits \div 2))

\* "Ensure current doesn't become zero due to rounding"
\* (addModifier lines 159-161, removeModifier lines 191-193).
KeepNonZero(cur, c) == IF cur = 0 /\ c > 0 THEN 1 ELSE cur

\* The values current_ may take after a proportional rescale from start to mx.
ScaleOutcomes(c, start, mx) ==
    { KeepNonZero(t, c) : t \in TruncOutcomes(c, start, mx) }

-----------------------------------------------------------------------------
(* PointStat: the record of the last call                                  *)

NoMod == [type_ |-> "none", value_ |-> 0, proportional_scaling_ |-> FALSE]

Call(op, mod, arg, ret) ==
    [op |-> op, mod |-> mod, arg |-> arg, ret |-> ret,
     pre_current |-> current_, pre_max |-> max_, pre_modifiers |-> modifiers_]

-----------------------------------------------------------------------------
(* PointStat: construction                                                 *)

\* The constructor without the clamp of lines 137-140.
StatInitNoClamp ==
    \E initial \in InitialValues, mx \in MaxValues :
        /\ constructed = (mx > 0)
        /\ calls = 0
        /\ modifiers_ = <<>>
        /\ handles_ = <<>>
        /\ current_ = initial
        /\ max_ = mx
        /\ base_max_ = mx
        /\ last = [op |-> "PointStat", mod |-> NoMod, arg |-> initial,
                   ret |-> (mx > 0), pre_current |-> initial, pre_max |-> mx,
                   pre_modifiers |-> <<>>]

\* PointStat::PointStat(initial, max): throws when max is 0, clamps initial.
StatInit ==
    \E initial \in InitialValues, mx \in MaxValues :
        /\ constructed = (mx > 0)
        /\ calls = 0
        /\ modifiers_ = <<>>
        /\ handles_ = <<>>
        /\ current_ = IF initial > mx THEN mx ELSE initial
        /\ max_ = mx
        /\ base_max_ = mx
        /\ last = [op |-> "PointStat", mod |-> NoMod, arg |-> initial,
                   ret |-> (mx > 0), pre_current |-> initial, pre_max |-> mx,
                   pre_modifiers |-> <<>>]

-----------------------------------------------------------------------------
(* PointStat: operations                                                   *)

\* addModifier with push_back moved out of the test of line 148: a rejected
\* modifier changes neither max_ nor current_ but is stored all the same.
addModifierKeepRejected(type, value, p_scale) ==
    /\ constructed
    /\ calls < MaxCalls
    /\ calls' = calls + 1
    /\ Len(modifiers_) < MaxModifiers
    /\ LET modifier    == Modifier(type, value, p_scale)
           start_value == max_
           result      == applyModifier(modifier, max_)
       IN  /\ IF result > 0
              THEN /\ max_' = result
                   /\ IF modifier.proportional_scaling_
                      THEN current_' \in ScaleOutcomes(current_, start_value, result)
                      ELSE current_' = current_
              ELSE UNCHANGED <<max_, current_>>
           /\ modifiers_' = Append(modifiers_, modifier)
           /\ handles_' = Append(handles_, calls + 1)
           /\ last' = Call("addModifier", modifier, calls + 1, result > 0)
    /\ UNCHANGED <<base_max_, constructed>>
    /\ UNCHANGED <<configVars, skillVars, formulaVars>>

\* PointStat::addModifier (modify is the same call, returning *this).
\* The call records the handle of the modifier it was passed as its argument.
addModifier(type, value, p_scale) ==
    /\ constructed
    /\ calls < MaxCalls
    /\ calls' = calls + 1
    /\ Len(modifiers_) < MaxModifiers
    /\ LET modifier    == Modifier(type, value, p_scale)
           start_value == max_
           result      == applyModifier(modifier, max_)
       IN  /\ IF result > 0
              THEN /\ max_' = result
                   /\ IF modifier.proportional_scaling_
                      THEN current_' \in ScaleOutcomes(current_, start_value, result)
                      ELSE current_' = current_
                   /\ modifiers_' = Append(modifiers_, modifier)
                   /\ handles_' = Append(handles_, calls + 1)
              ELSE UNCHANGED <<max_, current_, modifiers_, handles_>>
           /\ last' = Call("addModifier", modifier, calls + 1, result > 0)
    /\ UNCHANGED <<base_max_, constructed>>
    /\ UNCHANGED <<configVars, skillVars, formulaVars>>

\* The collection without its i-th element (vector::erase).
Erase(mods, i) == SubSeq(mods, 1, i - 1) \o SubSeq(mods, i + 1, Len(mods))

\* PointStat::removeModifier, found path: the handle designates element i.
\* modifier->getProportionalScaling() (line 185) is evaluated after erase
\* has destroyed the Modifier, so the flag read is any boolean.
removeModifier(i) ==
    /\ constructed
    /\ calls < MaxCalls
    /\ calls' = calls + 1
    /\ i \in 1..Len(modifiers_)
    /\ LET old_max == max_
           mods    == Erase(modifiers_, i)
           new_max == recalculateMax(mods, base_max_)
       IN  /\ modifiers_' = mods
           /\ handles_' = Erase(handles_, i)
           /\ max_' = new_max
           /\ \E flag \in BOOLEAN :
                 IF flag /\ old_max > 0
                 THEN current_' \in ScaleOutcomes(current_, old_max, new_max)
                 ELSE current_' = current_
           /\ last' = Call("removeModifier", modifiers_[i], i, TRUE)
    /\ UNCHANGED <<base_max_, constructed>>
    /\ UNCHANGED <<configVars, skillVars, formulaVars>>

\* PointStat::removeModifier with a handle the collection does not hold.
removeModifierNotFound ==
    /\ constructed
    /\ calls < MaxCalls
    /\ calls' = calls + 1
    /\ last' = Call("removeModifier", NoMod, 0, FALSE)
    /\ UNCHANGED <<modifiers_, handles_, current_, base_max_, max_, constructed>>
    /\ UNCHANGED <<configVars, skillVars, formulaVars>>

\* PointStat::clearModifiers
clearModifiers ==
    /\ constructed
    /\ calls < MaxCalls
    /\ calls' = calls + 1
    /\ IF modifiers_ = <<>>
       THEN /\ UNCHANGED <<modifiers_, handles_, max_, current_>>
            /\ last' = Call("clearModifiers", NoMod, 0, FALSE)
       ELSE /\ modifiers_' = <<>>
            /\ handles_' = <<>>
            /\ max_' = base_max_
            /\ \E t \in TruncOutcomes(current_, max_, base_max_) :
                  current_' = IF t > base_max_ THEN base_max_ ELSE t
            /\ last' = Call("clearModifiers", NoMod, 0, TRUE)
    /\ UNCHANGED <<base_max_, constructed>>
    /\ UNCHANGED <<configVars, skillVars, formulaVars>>

\* add without the cap of lines 258-260: the sum is stored whatever max_ is.
addNoCap(points) ==
    /\ constructed
    /\ calls < MaxCalls
    /\ calls' = calls + 1
    /\ IF points > NumberMax - current_
       THEN /\ current_' = max_
            /\ last' = Call("add", NoMod, points, FALSE)
       ELSE /\ current_' = ToNumber(current_ + points)
            /\ last' = Call("add", NoMod, points, TRUE)
    /\ UNCHANGED <<modifiers_, handles_, base_max_, max_, constructed>>
    /\ UNCHANGED <<configVars, skillVars, formulaVars>>

\* PointStat::add
add(points) ==
    /\ constructed
    /\ calls < MaxCalls
    /\ calls' = calls + 1
    /\ IF points > NumberMax - current_
       THEN /\ current_' = max_
            /\ last' = Call("add", NoMod, points, FALSE)
       ELSE LET new_value == ToNumber(current_ + points)
            IN  IF new_value > max_
                THEN /\ current_' = max_
                     /\ last' = Call("add", NoMod, points, FALSE)
                ELSE /\ current_' = new_value
                     /\ last' = Call("add", NoMod, points, TRUE)
    /\ UNCHANGED <<modifiers_, handles_, base_max_, max_, constructed>>
    /\ UNCHANGED <<configVars, skillVars, formulaVars>>

\* remove without the test of line 270: the difference is stored, wrapped.
removeWrapping(points) ==
    /\ constructed
    /\ calls < MaxCalls
    /\ calls' = calls + 1
    /\ current_' = ToNumber(current_ - points + NumberMax + 1)
    /\ last' = Call("remove", NoMod, points, TRUE)
    /\ UNCHANGED <<modifiers_, handles_, base_max_, max_, constructed>>
    /\ UNCHANGED <<configVars, skillVars, formulaVars>>

\* PointStat::remove
remove(points) ==
    /\ constructed
    /\ calls < MaxCalls
    /\ calls' = calls + 1
    /\ IF points > current_
       THEN /\ current_' = 0
            /\ last' = Call("remove", NoMod, points, FALSE)
       ELSE /\ current_' = ToNumber(current_ - points)
            /\ last' = Call("remove", NoMod, points, TRUE)
    /\ UNCHANGED <<modifiers_, handles_, base_max_, max_, constructed>>
    /\ UNCHANGED <<configVars, skillVars, formulaVars>>

StatNext ==
    \/ \E in \in ModInputs, p_scale \in BOOLEAN :
          addModifier(in[1], in[2], p_scale)
    \/ \E i \in 1..MaxModifiers : removeModifier(i)
    \/ removeModifierNotFound
    \/ clearModifiers
    \/ \E points \in PointValues : add(points)
    \/ \E points \in PointValues : remove(points)

-----------------------------------------------------------------------------
(* CustomSkill: integer types                                              *)

\* Width of the level type (uint16_t), scaled; amounts (uint32_t) have twice
\* and points (uint64_t) four times as many bits.
LevelBits == 3

\* static constexpr uint16_t LevelMax = UINT16_MAX
LevelMax == 2^LevelBits - 1

\* std::numeric_limits<uint32_t>::max(), the largest amount of points
AmountMax == 2^(2 * LevelBits) - 1

\* static constexpr uint64_t PointMax = UINT64_MAX
PointMax == 2^(4 * LevelBits) - 1

\* Narrowing conversions (unsigned wraparound).
ToLevel(n) == n % (LevelMax + 1)
ToPoints(n) == n % (PointMax + 1)

\* int16_t
BonusMin == 0 - 2^(LevelBits - 1)
BonusMax == 2^(LevelBits - 1) - 1

Formulas == {"LINEAR", "LOGARITHMIC", "EXPONENTIAL", "QUADRATIC",
             "CUBIC", "STEP", "ROOT", "INVERSE"}

\* The result of an evaluation that a division by zero has trapped.
Fault == 0 - 1

\* An integer division by zero is undefined.  The division instruction
\* either traps (SIGFPE on x86-64) or yields 0 (UDIV on AArch64), and a
\* compiler may turn an overflow guard "a > PointMax / b" into a test of
\* the product a * b, which is false for b = 0 (GCC does):
\*   "trap"       every division by zero traps;
\*   "zero"       every division by zero yields 0;
\*   "fold"       guards test the product, other divisions by zero trap;
\*   "fold_zero"  guards test the product, other divisions by zero yield 0.
DivByZeroOutcomes == {"trap", "zero", "fold", "fold_zero"}

\* a / b in unsigned 64-bit arithmetic, outside an overflow guard
Quot(a, b) ==
    IF b = 0 THEN (IF div_by_zero \in {"trap", "fold"} THEN Fault ELSE 0)
             ELSE a \div b

\* Whether evaluating the guard "a > PointMax / b" traps
GuardTraps(b) == b = 0 /\ div_by_zero = "trap"

\* The value of the guard "a > PointMax / b" when it does not trap
Exceeds(a, b) ==
    IF b = 0 THEN div_by_zero = "zero" /\ a > 0 ELSE a > PointMax \div b

-----------------------------------------------------------------------------
(* CustomSkill: the growth formulas                                        *)

RECURSIVE SqrtLoop(_, _, _, _)
SqrtLoop(n, left, right, ans) ==
    IF left > right THEN ans
    ELSE LET mid == left + (right - left) \div 2
             q   == Quot(n, mid)
         IN  IF q = Fault THEN Fault
             ELSE IF mid <= q THEN SqrtLoop(n, mid + 1, right, mid)
                              ELSE SqrtLoop(n, left, mid - 1, ans)

\* CustomSkill::integerSqrt
integerSqrt(n) == SqrtLoop(n, 0, n, 0)

\* The loop of integerPow.  After the last shift (exp becomes 0) the loop
\* still squares base, a value it never reads again.
RECURSIVE PowLoop(_, _, _)
PowLoop(base, exp, result) ==
    IF exp = 0 THEN result
    ELSE LET odd == exp % 2 = 1
         IN  IF odd /\ GuardTraps(base) THEN Fault
             ELSE IF odd /\ Exceeds(result, base) THEN PointMax
             ELSE LET result2 == IF odd THEN result * base ELSE result
                      exp2    == exp \div 2
                  IN  IF exp2 = 0 THEN result2
                      ELSE IF GuardTraps(base) THEN Fault
                      ELSE IF Exceeds(base, base) THEN PointMax
                      ELSE PowLoop(base * base, exp2, result2)

\* CustomSkill::integerPow
integerPow(base, exp) == PowLoop(base, exp, 1)

\* CustomSkill::linearGrowth
linearGrowth(level) ==
    LET x == factor_x
        y == factor_y
        z == factor_z
    IN  IF x > 0 /\ y > PointMax \div x THEN PointMax
        ELSE IF z > 0 /\ level > PointMax \div z THEN PointMax
        ELSE LET xy == x * y
                 zt == z * level
             IN  IF xy > PointMax - zt THEN PointMax ELSE xy + zt

\* while (sum >>= 1) ++log2_val;
RECURSIVE ShiftCount(_)
ShiftCount(sum) == IF sum \div 2 = 0 THEN 0 ELSE 1 + ShiftCount(sum \div 2)

\* CustomSkill::logarithmicGrowth
logarithmicGrowth(level) ==
    LET x  == factor_x
        y  == factor_y
        z  == factor_z
    IN  IF GuardTraps(level) THEN Fault
        ELSE IF Exceeds(y, level) THEN PointMax
        ELSE LET product == y * level
             IN  IF z > PointMax - product THEN PointMax
                 ELSE LET sum == product + z
                      IN  IF sum = 0 THEN 0
                          ELSE LET log2_val == ShiftCount(sum)
                               IN  IF GuardTraps(log2_val) THEN Fault
                                   ELSE IF Exceeds(x, log2_val) THEN PointMax
                                   ELSE x * log2_val

\* exponentialGrowth without the overflow guard of line 363: the product
\* x * power is returned as the 64-bit multiplication leaves it.
exponentialGrowthWrapping(level) ==
    LET x == factor_x
        y == factor_y
        z == factor_z
    IN  IF level <= z + 1 THEN x
        ELSE LET power == integerPow(y, level - (z + 1))
             IN  IF power = Fault THEN Fault
                 ELSE ToPoints(x * power)

\* CustomSkill::exponentialGrowth
exponentialGrowth(level) ==
    LET x == factor_x
        y == factor_y
        z == factor_z
    IN  IF level <= z + 1 THEN x
        ELSE LET power == integerPow(y, level - (z + 1))
             IN  IF power = Fault THEN Fault
                 ELSE IF x > 0 /\ power > PointMax \div x THEN PointMax
                 ELSE x * power

\* CustomSkill::quadraticGrowth
quadraticGrowth(level) ==
    LET x == factor_x
        y == factor_y
        z == factor_z
    IN  IF GuardTraps(level) THEN Fault
        ELSE IF Exceeds(level, level) THEN PointMax
        ELSE LET level2 == level * level
             IN  IF x > 0 /\ level2 > PointMax \div x THEN PointMax
                 ELSE IF y > 0 /\ level > PointMax \div y THEN PointMax
                 ELSE LET x_part == x * level2
                          y_part == y * level
                      IN  IF x_part > PointMax - y_part THEN PointMax
                          ELSE IF x_part + y_part > PointMax - z THEN PointMax
                          ELSE x_part + y_part + z

\* CustomSkill::cubicGrowth
cubicGrowth(level) ==
    LET x == factor_x
    IN  IF GuardTraps(level) THEN Fault
        ELSE IF Exceeds(level, level) THEN PointMax
        ELSE LET level2 == level * level
             IN  IF Exceeds(level2, level) THEN PointMax
                 ELSE LET level3 == level2 * level
                      IN  IF x > 0 /\ level3 > PointMax \div x THEN PointMax
                          ELSE x * level3

\* CustomSkill::stepGrowth
stepGrowth(level) ==
    LET x == factor_x
        y == factor_y
        z == factor_z
    IN  IF z > PointMax - level THEN PointMax
        ELSE IF y = 0 THEN PointMax
        ELSE LET quotient == (level + z) \div y
             IN  IF x > 0 /\ quotient > PointMax \div x THEN PointMax
                 ELSE x * quotient

\* CustomSkill::rootGrowth
rootGrowth(level) ==
    LET x == factor_x
        y == factor_y
        z == factor_z
    IN  IF y > PointMax - level THEN PointMax
        ELSE LET root == integerSqrt(level + y)
             IN  IF root = Fault THEN Fault
                 ELSE IF x > 0 /\ root > PointMax \div x THEN PointMax
                 ELSE IF x * root > PointMax - z THEN PointMax
                 ELSE x * root + z

\* CustomSkill::inverseGrowth
inverseGrowth(level) ==
    LET x == factor_x
        y == factor_y
        z == factor_z
    IN  IF y > PointMax - level THEN PointMax
        ELSE IF y + level = 0 THEN PointMax
        ELSE LET div == x \div (y + level)
             IN  IF div > PointMax - z THEN PointMax ELSE div + z

\* CustomSkill::pointsRequired
pointsRequired(level) ==
    CASE formula = "LINEAR"      -> linearGrowth(level)
      [] formula = "LOGARITHMIC" -> logarithmicGrowth(level)
      [] formula = "EXPONENTIAL" -> exponentialGrowth(level)
      [] formula = "QUADRATIC"   -> quadraticGrowth(level)
      [] formula = "CUBIC"       -> cubicGrowth(level)
      [] formula = "STEP"        -> stepGrowth(level)
      [] formula = "ROOT"        -> rootGrowth(level)
      [] formula = "INVERSE"     -> inverseGrowth(level)
      [] OTHER                   -> 0

-----------------------------------------------------------------------------
(* CustomSkill: bounds of the exploration                                  *)

\* Longest sequence of calls made on one CustomSkill.
MaxSkillCalls == 2

\* Constructor arguments <<form, max, x, y, z>> of the skills explored.
SkillFactors == {<<1, 1, 1>>, <<2, 3, 1>>, <<1, 2, 0>>, <<1, 0, 0>>}
SkillCaps == {0, 3}

\* Amounts handed to addPoints and removePoints (uint32_t).  The largest
\* pays for the step beyond LevelMax of the cheaper skills explored.
PointAmounts == {0, 1, 3, 5, 2 * LevelMax + 8}

\* Amounts handed to addLevels and removeLevels (uint16_t).
LevelAmounts == {0, 1, 2, LevelMax}

\* Values handed to setBonus (int16_t).
BonusValues == {BonusMin, 0 - 1, 1, BonusMax}

\* Factors and target levels of the evaluations of pointsRequired.
FormulaFactors == {0, 1, 2, LevelMax}
TargetLevels == 0..(LevelMax + 1)

-----------------------------------------------------------------------------
(* CustomSkill: accessors                                                  *)

\* CustomSkill::points
points ==
    IF max_level > 0 /\ current_level >= max_level
    THEN pointsRequired(max_level)
    ELSE current_points

\* level without the ceiling of line 86: the sum is narrowed as it is.
levelNoCeiling(count_bonus) ==
    IF ~count_bonus \/ bonus_level = 0
    THEN current_level
    ELSE ToLevel((current_level + bonus_level) % (AmountMax + 1))

\* CustomSkill::level; the sum is formed in uint32_t.
level(count_bonus) ==
    IF ~count_bonus \/ bonus_level = 0
    THEN current_level
    ELSE LET total == (current_level + bonus_level) % (AmountMax + 1)
         IN  IF total < LevelMax THEN ToLevel(total) ELSE LevelMax

-----------------------------------------------------------------------------
(* CustomSkill: the mutating operations as functions of the stored level   *)
(* and points.  A result is [level, points, fault]; fault is TRUE when a   *)
(* division by zero trapped during the call.                               *)

Result(lvl, pts) == [level |-> lvl, points |-> pts, fault |-> FALSE]
Trapped == [level |-> 0, points |-> 0, fault |-> TRUE]

\* The loop of addPoints without the reset of line 104: at the cap the
\* inbound points are banked instead of discarded.
RECURSIVE AddPointsLoopKeep(_, _, _)
AddPointsLoopKeep(temp_level, temp_current_points, amount) ==
    IF max_level # 0 /\ temp_level >= max_level
    THEN Result(temp_level, ToPoints(temp_current_points + amount))
    ELSE LET points_required == pointsRequired(temp_level + 1)
         IN  IF points_required = Fault THEN Trapped
             ELSE IF points_required = PointMax \/ points_required = 0
             THEN Result(temp_level, ToPoints(temp_current_points + amount))
             ELSE LET excess_points == ToPoints(points_required - temp_current_points)
                  IN  IF amount >= excess_points
                      THEN AddPointsLoopKeep(temp_level + 1, 0, amount - excess_points)
                      ELSE Result(temp_level, ToPoints(temp_current_points + amount))

\* The loop of addPoints (lines 100-128); amount is the uint32_t points.
RECURSIVE AddPointsLoop(_, _, _)
AddPointsLoop(temp_level, temp_current_points, amount) ==
    IF max_level # 0 /\ temp_level >= max_level
    THEN Result(temp_level, 0)
    ELSE LET points_required == pointsRequired(temp_level + 1)
         IN  IF points_required = Fault THEN Trapped
             ELSE IF points_required = PointMax \/ points_required = 0
             THEN Result(temp_level, ToPoints(temp_current_points + amount))
             ELSE LET excess_points == ToPoints(points_required - temp_current_points)
                  IN  IF amount >= excess_points
                      THEN AddPointsLoop(temp_level + 1, 0, amount - excess_points)
                      ELSE Result(temp_level, ToPoints(temp_current_points + amount))

\* CustomSkill::addPoints for a non-zero amount: the 64-bit working level is
\* narrowed to uint16_t on the way out (line 131).
addPointsResult(lvl, pts, amount) ==
    LET r == AddPointsLoop(lvl, pts, amount)
    IN  IF r.fault THEN r ELSE Result(ToLevel(r.level), r.points)

\* The loop of removePoints (lines 158-173).
RECURSIVE RemovePointsLoop(_, _, _)
RemovePointsLoop(temp_level, temp_points, points_to_remove) ==
    IF ~(points_to_remove > 0 /\ temp_level > 0)
    THEN Result(temp_level, temp_points)
    ELSE LET required_points == pointsRequired(temp_level)
         IN  IF required_points = Fault THEN Trapped
             ELSE IF points_to_remove >= required_points
             THEN RemovePointsLoop(temp_level - 1, 0,
                                   points_to_remove - required_points)
             ELSE Result(temp_level, required_points - points_to_remove)

\* CustomSkill::removePoints for a non-zero amount.
removePointsResult(lvl, pts, amount) ==
    LET r == IF amount >= pts
             THEN RemovePointsLoop(lvl, 0, amount - pts)
             ELSE RemovePointsLoop(lvl, pts - amount, 0)
    IN  IF r.fault THEN r
        ELSE IF r.level > 0 THEN Result(ToLevel(r.level), r.points)
                            ELSE Result(1, 0)

\* The points stored by addLevels and removeLevels on arriving at new_level:
\*     percent = save_progress and required > 0 ? double(points) / required : 0.0
\*     current_points = save_progress ? uint64_t(pointsRequired(level) * percent) : 0
\* The double arithmetic is modelled as for PointStat; the model's points
\* are narrow enough for a double to hold them exactly.
ProgressOutcomes(new_level, pts, required, save_progress) ==
    IF ~save_progress THEN {Result(new_level, 0)}
    ELSE LET new_required == pointsRequired(new_level)
         IN  IF new_required = Fault THEN {Trapped}
             ELSE IF required = 0 THEN {Result(new_level, 0)}
             ELSE { Result(new_level, t) :
                      t \in CastOutcomes(pts, required, new_required,
                                         2^(2 * LevelBits)) }

\* The level addLevels arrives at (line 190): the sum is formed in int and
\* narrowed to uint16_t by the assignment.
addLevelsTarget(lvl, levels) ==
    IF max_level # 0 /\ levels + lvl >= max_level
    THEN max_level
    ELSE ToLevel(levels + lvl)

\* CustomSkill::addLevels for a non-zero amount: the possible results.
addLevelsResults(lvl, pts, levels, save_progress) ==
    LET required == pointsRequired(lvl)
    IN  IF required = Fault THEN {Trapped}
        ELSE ProgressOutcomes(addLevelsTarget(lvl, levels), pts, required,
                              save_progress)

\* The level removeLevels arrives at (line 205): std::max<uint16_t> converts
\* the int difference to uint16_t before comparing it with 1.
removeLevelsTarget(lvl, levels) ==
    LET difference == ToLevel(lvl - levels)
    IN  IF difference < 1 THEN 1 ELSE difference

\* CustomSkill::removeLevels for a non-zero amount: the possible results.
removeLevelsResults(lvl, pts, levels, save_progress) ==
    LET required == pointsRequired(lvl)
    IN  IF required = Fault THEN {Trapped}
        ELSE ProgressOutcomes(removeLevelsTarget(lvl, levels), pts, required,
                              save_progress)

-----------------------------------------------------------------------------
(* CustomSkill: construction and operations                                *)

SkillCall(op, arg, save, ret) ==
    [op |-> op, arg |-> arg, save |-> save, ret |-> ret,
     pre_level |-> current_level, pre_points |-> current_points]

\* The member initializers (lines 234-241) of a skill that no call has
\* touched yet.
FreshSkill ==
    /\ current_points = 0
    /\ current_level = 1
    /\ bonus_level = 0
    /\ faulted = FALSE
    /\ skill_calls = 0
    /\ skill_last = [op |-> "CustomSkill", arg |-> 0, save |-> FALSE,
                     ret |-> TRUE, pre_level |-> 1, pre_points |-> 0]

\* CustomSkill::CustomSkill(form, max, x, y, z)
CustomSkill(form, cap, x, y, z) ==
    /\ factor_x = x
    /\ factor_y = y
    /\ factor_z = z
    /\ max_level = cap
    /\ formula = form

SkillInit ==
    /\ \E form \in Formulas, cap \in SkillCaps, f \in SkillFactors :
          CustomSkill(form, cap, f[1], f[2], f[3])
    /\ div_by_zero \in DivByZeroOutcomes
    /\ FreshSkill

\* The effect of a call with result r on the stored level and points; a
\* trap ends the program and leaves the object as it was.
Store(r) ==
    IF r.fault
    THEN /\ faulted' = TRUE
         /\ UNCHANGED <<current_level, current_points>>
    ELSE /\ current_level' = r.level
         /\ current_points' = r.points
         /\ UNCHANGED faulted

Called ==
    /\ ~faulted
    /\ skill_calls < MaxSkillCalls
    /\ skill_calls' = skill_calls + 1

\* CustomSkill::addPoints
addPoints(amount) ==
    /\ Called
    /\ IF amount = 0
       THEN UNCHANGED <<current_level, current_points, faulted>>
       ELSE Store(addPointsResult(current_level, current_points, amount))
    /\ skill_last' = SkillCall("addPoints", amount, FALSE, amount # 0)
    /\ UNCHANGED bonus_level
    /\ UNCHANGED <<configVars, statVars, formulaVars>>

\* removePoints without the test of line 138: a zero amount runs the body
\* and returns true.
removePointsNoZeroTest(amount) ==
    /\ Called
    /\ Store(removePointsResult(current_level, current_points, amount))
    /\ skill_last' = SkillCall("removePoints", amount, FALSE, TRUE)
    /\ UNCHANGED bonus_level
    /\ UNCHANGED <<configVars, statVars, formulaVars>>

\* CustomSkill::removePoints
removePoints(amount) ==
    /\ Called
    /\ IF amount = 0
       THEN UNCHANGED <<current_level, current_points, faulted>>
       ELSE Store(removePointsResult(current_level, current_points, amount))
    /\ skill_last' = SkillCall("removePoints", amount, FALSE, amount # 0)
    /\ UNCHANGED bonus_level
    /\ UNCHANGED <<configVars, statVars, formulaVars>>

\* CustomSkill::addLevels
addLevels(levels, save_progress) ==
    /\ Called
    /\ IF levels = 0
       THEN UNCHANGED <<current_level, current_points, faulted>>
       ELSE \E r \in addLevelsResults(current_level, current_points, levels,
                                      save_progress) : Store(r)
    /\ skill_last' = SkillCall("addLevels", levels, save_progress, levels # 0)
    /\ UNCHANGED bonus_level
    /\ UNCHANGED <<configVars, statVars, formulaVars>>

\* CustomSkill::removeLevels
removeLevels(levels, save_progress) ==
    /\ Called
    /\ IF levels = 0
       THEN UNCHANGED <<current_level, current_points, faulted>>
       ELSE \E r \in removeLevelsResults(current_level, current_points, levels,
                                         save_progress) : Store(r)
    /\ skill_last' = SkillCall("removeLevels", levels, save_progress, levels # 0)
    /\ UNCHANGED bonus_level
    /\ UNCHANGED <<configVars, statVars, formulaVars>>

\* CustomSkill::setBonus
setBonus(bonus) ==
    /\ Called
    /\ bonus_level' = bonus
    /\ skill_last' = SkillCall("setBonus", bonus, FALSE, TRUE)
    /\ UNCHANGED <<current_level, current_points, faulted>>
    /\ UNCHANGED <<configVars, statVars, formulaVars>>

SkillNext ==
    \/ \E amount \in PointAmounts : addPoints(amount)
    \/ \E amount \in PointAmounts : removePoints(amount)
    \/ \E levels \in LevelAmounts, save_progress \in BOOLEAN :
          addLevels(levels, save_progress)
    \/ \E levels \in LevelAmounts, save_progress \in BOOLEAN :
          removeLevels(levels, save_progress)
    \/ \E bonus \in BonusValues : setBonus(bonus)

-----------------------------------------------------------------------------
(* Evaluations of pointsRequired                                           *)

\* No evaluation has been made yet.
NotEvaluated == 0 - 2

FormulaInit ==
    /\ \E form \in Formulas, x \in FormulaFactors, y \in FormulaFactors,
          z \in FormulaFactors : CustomSkill(form, 0, x, y, z)
    /\ div_by_zero \in DivByZeroOutcomes
    /\ eval_level = 0
    /\ eval_result = NotEvaluated

\* One call of pointsRequired(target); a trap is recorded as Fault.
Evaluate(target) ==
    /\ eval_level' = target
    /\ eval_result' = pointsRequired(target)
    /\ UNCHANGED <<configVars, statVars, skillVars>>

FormulaNext == \E target \in TargetLevels : Evaluate(target)

-----------------------------------------------------------------------------
(* The three specifications                                                *)

\* The components a specification is not about stay as constructed:
\* PointStat<NumberType>(50, 100), a default CustomSkill, no evaluation.
StatParked ==
    /\ modifiers_ = <<>>
    /\ handles_ = <<>>
    /\ current_ = 50
    /\ base_max_ = 100
    /\ max_ = 100
    /\ constructed = TRUE
    /\ calls = 0
    /\ last = [op |-> "PointStat", mod |-> NoMod, arg |-> 50, ret |-> TRUE,
               pre_current |-> 50, pre_max |-> 100, pre_modifiers |-> <<>>]

SkillParked ==
    /\ CustomSkill("EXPONENTIAL", 0, 1, 1, 1)
    /\ div_by_zero = "trap"
    /\ FreshSkill

FormulaParked ==
    /\ eval_level = 0
    /\ eval_result = NotEvaluated

Init == StatInit /\ SkillParked /\ FormulaParked

Next == StatNext

Spec == Init /\ [][Next]_vars

SkillSpecInit == SkillInit /\ StatParked /\ FormulaParked

SkillSpec == SkillSpecInit /\ [][SkillNext]_vars

FormulaSpecInit == FormulaInit /\ FreshSkill /\ StatParked

FormulaSpec == FormulaSpecInit /\ [][FormulaNext]_vars

-----------------------------------------------------------------------------
(* PointStat: properties                                                   *)

\* Replaying a stored collection from base_max_: a left fold in insertion
\* order through the dispatch, a rejected step keeping the running value.
RECURSIVE Replay(_, _, _)
Replay(mods, k, running) ==
    IF k > Len(mods) THEN running
    ELSE LET candidate == applyModifier(mods[k], running)
         IN  Replay(mods, k + 1, IF candidate = 0 THEN running ELSE candidate)

\* Whether the replay of a collection skips one of its modifiers as rejected.
ReplayRejects(mods, base) ==
    \E k \in 1..Len(mods) :
        applyModifier(mods[k], Replay(SubSeq(mods, 1, k - 1), 1, base)) = 0

\* C1: after every operation current <= max.
C1_CurrentWithinMax == constructed => current_ <= max_

\* C2: the derived maximum of a constructed stat is strictly positive in
\* every reachable state.
C2_MaxPositive == constructed => max_ > 0

\* C2 witness: removeModifier re-folded a collection one of whose survivors
\* is rejected in the fold, and the maximum is positive.
C2_Witness ==
    /\ constructed
    /\ last.op = "removeModifier" /\ last.ret
    /\ ReplayRejects(modifiers_, base_max_)
    /\ max_ > 0

\* C3: the maximum maintained by addModifier, removeModifier and
\* clearModifiers equals the replay of the stored modifiers, in insertion
\* order, from base_max.
C3_MaxEqualsReplay == constructed => max_ = Replay(modifiers_, 1, base_max_)

\* C3 witness: a removal left a modifier whose replay moves the maximum away
\* from base_max and from the maximum before the removal.
C3_Witness ==
    /\ constructed
    /\ last.op = "removeModifier" /\ last.ret
    /\ modifiers_ # <<>>
    /\ max_ # base_max_ /\ max_ # last.pre_max
    /\ max_ = Replay(modifiers_, 1, base_max_)

\* C7: an addModifier with a Multiply modifier whose exact product
\* max * value exceeds the largest NumberType value is rejected: max,
\* current and the collection are as before the call.
C7_OverflowingMultiplyRejected ==
    (/\ constructed
     /\ last.op = "addModifier"
     /\ last.mod.type_ = "Multiply"
     /\ last.mod.value_ * last.pre_max > NumberMax)
    => (/\ max_ = last.pre_max
        /\ current_ = last.pre_current
        /\ modifiers_ = last.pre_modifiers)

\* The Modifier objects the collection holds.
Stored(handles) == { handles[i] : i \in 1..Len(handles) }

\* C11: when the per-kind dispatch rejects the modifier passed to
\* addModifier, max, current and the collection are as before the call, and
\* a Modifier object that has been passed and is not in the collection never
\* enters it in a later step.
C11_RejectedModifierDiscarded ==
    /\ []((/\ constructed
           /\ last.op = "addModifier"
           /\ applyModifier(last.mod, last.pre_max) = 0)
          => (/\ max_ = last.pre_max
              /\ current_ = last.pre_current
              /\ modifiers_ = last.pre_modifiers
              /\ Len(handles_) = Len(modifiers_)
              /\ last.arg \notin Stored(handles_)))
    /\ [][\A h \in 1..MaxCalls :
              (h <= calls /\ h \notin Stored(handles_))
                  => h \notin Stored(handles_')]_vars

\* A Divide whose integer quotient is 0 has just been rejected while the
\* collection holds an earlier modifier.
C11_Witness ==
    /\ constructed
    /\ last.op = "addModifier"
    /\ last.mod.type_ = "Divide"
    /\ last.pre_max \div last.mod.value_ = 0
    /\ ~last.ret
    /\ modifiers_ # <<>>
    /\ modifiers_ = last.pre_modifiers

\* C12: a step of add or remove taken with current <= max leaves
\* 0 <= current <= max and changes neither max, base_max nor the collection.
C12_AddRemoveWithinBounds ==
    [][(last'.op \in {"add", "remove"} /\ current_ <= max_)
         => (/\ current_' \in 0..max_'
             /\ UNCHANGED <<max_, base_max_, modifiers_, handles_>>)]_vars

\* add(p) with current + p beyond the largest NumberType value was called on
\* a stat that holds a modifier, and capped current at max.
C12_Witness ==
    /\ constructed
    /\ last.op = "add"
    /\ last.pre_current <= last.pre_max
    /\ last.arg > NumberMax - last.pre_current
    /\ modifiers_ # <<>>
    /\ current_ = max_

\* C13: the constructor fails exactly when max is 0; otherwise base_max and
\* max are the given maximum, the collection is empty and current is
\* min(initial, max).
C13_Construction ==
    last.op = "PointStat" =>
        /\ constructed <=> last.pre_max > 0
        /\ constructed =>
              /\ base_max_ = last.pre_max
              /\ max_ = last.pre_max
              /\ modifiers_ = <<>>
              /\ current_ = IF last.arg < last.pre_max THEN last.arg
                                                      ELSE last.pre_max

\* A stat was constructed with an initial value above its maximum.
C13_Witness ==
    /\ last.op = "PointStat"
    /\ constructed
    /\ last.arg > last.pre_max
    /\ current_ = last.pre_max

\* C17: from current <= max, add(p) returns true and adds p exactly when
\* current + p <= max, else returns false and leaves current = max;
\* remove(p) returns true and subtracts p exactly when p <= current, else
\* returns false and leaves current = 0.
C17_AddRemoveResult ==
    (constructed /\ last.pre_current <= last.pre_max) =>
        /\ last.op = "add" =>
              IF last.pre_current + last.arg <= last.pre_max
              THEN last.ret /\ current_ = last.pre_current + last.arg
              ELSE ~last.ret /\ current_ = last.pre_max
        /\ last.op = "remove" =>
              IF last.arg <= last.pre_current
              THEN last.ret /\ current_ = last.pre_current - last.arg
              ELSE ~last.ret /\ current_ = 0

\* remove(p) was called with p above a non-zero current.
C17_Witness ==
    /\ constructed
    /\ last.op = "remove"
    /\ last.pre_current <= last.pre_max
    /\ last.pre_current > 0
    /\ last.arg > last.pre_current
    /\ ~last.ret
    /\ current_ = 0

\* The proportional Multiply modifiers of the inputs.
ProportionalMultipliers ==
    { Modifier(in[1], in[2], TRUE) : in \in {i \in ModInputs : i[1] = "Multiply"} }

\* C14: on a stat with current <= max, addModifier with a proportional
\* Multiply(k) whose product max * k fits the type changes (max, current) to
\* (max * k, current * k); removing that modifier next gives max back
\* exactly and current back to within 1.
C14_ProportionalMultiplyRoundTrip ==
    (constructed /\ current_ <= max_) =>
        \A modifier \in ProportionalMultipliers :
            modifier.value_ * max_ <= NumberMax =>
                LET k        == modifier.value_
                    new_max  == applyModifier(modifier, max_)
                    restored == recalculateMax(modifiers_, base_max_)
                IN  /\ new_max = max_ * k
                    /\ restored = max_
                    /\ \A scaled \in ScaleOutcomes(current_, max_, new_max) :
                          /\ scaled = current_ * k
                          /\ \A flag \in BOOLEAN :
                                \A back \in (IF flag /\ new_max > 0
                                             THEN ScaleOutcomes(scaled, new_max, restored)
                                             ELSE {scaled}) :
                                    /\ back <= current_ + 1
                                    /\ current_ <= back + 1

\* floor(c * m / s) clamped to m, the exact value of the rescale.
FloorClamped(c, s, m) ==
    LET half == 2^(NumberBits \div 2)
        p    == ScaleParts(c, s, m, half)
    IN  IF p.hi >= half \/ p.hi * half + p.lo > m THEN m
        ELSE p.hi * half + p.lo

\* C18: clearModifiers on an empty collection returns false and changes
\* nothing; otherwise it returns true, empties the collection, sets
\* max = base_max and current = min(max, floor(old_current * base_max / old_max)).
\* Stated for calls made with current <= max, where the rescaled value fits
\* the type and the cast is defined.
C18_ClearModifiers ==
    (/\ constructed
     /\ last.op = "clearModifiers"
     /\ last.pre_current <= last.pre_max) =>
        IF last.pre_modifiers = <<>>
        THEN /\ ~last.ret
             /\ modifiers_ = <<>>
             /\ max_ = last.pre_max
             /\ current_ = last.pre_current
        ELSE /\ last.ret
             /\ modifiers_ = <<>>
             /\ max_ = base_max_
             /\ current_ = FloorClamped(last.pre_current, last.pre_max, base_max_)

\* C25: every stored modifier is in effect: the replay of the collection
\* from base_max in insertion order rejects none of its steps.
C25_StoredModifiersInEffect ==
    constructed => ~ReplayRejects(modifiers_, base_max_)

\* C26: removeModifier acts on the proportional-scaling flag the removed
\* modifier held while it was alive: current is rescaled from the old to the
\* new maximum when that modifier asked for proportional scaling, and is left
\* as it was when it did not.
C26_RemoveReadsLiveFlag ==
    (constructed /\ last.op = "removeModifier" /\ last.ret) =>
        IF last.mod.proportional_scaling_ /\ last.pre_max > 0
        THEN current_ \in ScaleOutcomes(last.pre_current, last.pre_max, max_)
        ELSE current_ = last.pre_current

-----------------------------------------------------------------------------
(* CustomSkill: properties                                                 *)

\* The skill has not reached its level cap.
ShortOfCap == max_level = 0 \/ current_level < max_level

\* C4: the stored level of a skill is at least 1 in every reachable state.
C4_LevelAtLeastOne == current_level >= 1

\* C5: a skill constructed with a level cap never stores a level above it.
C5_LevelWithinCap == max_level > 0 => current_level <= max_level

\* C6: from a state short of the cap, addPoints(p) followed by
\* removePoints(p), p > 0, gives back the level and points it started from.
C6_AddThenRemoveRestores ==
    (~faulted /\ ShortOfCap) =>
        \A amount \in PointAmounts \ {0} :
            LET added   == addPointsResult(current_level, current_points, amount)
                removed == removePointsResult(added.level, added.points, amount)
            IN  (~added.fault /\ ~removed.fault) =>
                    /\ removed.level = current_level
                    /\ removed.points = current_points

\* C8: every evaluation of pointsRequired completes without a fault and
\* returns a value that does not exceed the saturation sentinel.
C8_PointsRequiredNeverFaults ==
    eval_result # NotEvaluated => eval_result \in 0..PointMax

\* C9: removeLevels(n, save_progress) with n > 0 leaves the level at
\* max(1, level - n).
C9_RemoveLevelsFloorsAtOne ==
    (skill_last.op = "removeLevels" /\ skill_last.arg > 0 /\ ~faulted) =>
        current_level = IF skill_last.pre_level - skill_last.arg < 1
                        THEN 1
                        ELSE skill_last.pre_level - skill_last.arg

\* C10: addLevels(n, save_progress) with n > 0 leaves the level at
\* min(max_level, level + n) under a cap and at level + n without one,
\* never below the level it started from.
C10_AddLevelsNeverWraps ==
    (skill_last.op = "addLevels" /\ skill_last.arg > 0 /\ ~faulted) =>
        LET sum == skill_last.pre_level + skill_last.arg
        IN  IF max_level > 0
            THEN current_level = IF sum < max_level THEN sum ELSE max_level
            ELSE /\ sum <= LevelMax => current_level = sum
                 /\ current_level >= skill_last.pre_level

\* C15: addLevels(n, true) followed by removeLevels(n, true), n > 0, gives
\* back the level it started from, and points that differ from the original
\* by no more than the two truncations lose: with r0 and r1 the costs of the
\* original and of the raised level, at most r0 / r1 + 2 below and never
\* more than 1 above.
C15_AddThenRemoveLevelsRestores ==
    ~faulted =>
        \A levels \in LevelAmounts \ {0} :
            \A added \in addLevelsResults(current_level, current_points,
                                          levels, TRUE) :
                ~added.fault =>
                    \A removed \in removeLevelsResults(added.level, added.points,
                                                       levels, TRUE) :
                        ~removed.fault =>
                            LET r0 == pointsRequired(current_level)
                                r1 == pointsRequired(added.level)
                            IN  /\ removed.level = current_level
                                /\ (r0 > 0 /\ r1 > 0) =>
                                      /\ removed.points <= current_points + 1
                                      /\ current_points
                                            <= removed.points + r0 \div r1 + 2

\* C19: on a skill with a level cap, addPoints(p), p > 0, called at or
\* above the cap returns true, leaves the level as it was and the stored
\* points at zero; a call that reaches the cap from below stops at the cap
\* with the stored points at zero; in both cases points() is
\* pointsRequired(max_level).
C19_AddPointsAtCap ==
    (/\ skill_last.op = "addPoints"
     /\ skill_last.arg > 0
     /\ max_level > 0
     /\ ~faulted) =>
        /\ skill_last.pre_level >= max_level =>
              /\ skill_last.ret
              /\ current_level = skill_last.pre_level
              /\ current_points = 0
              /\ points = pointsRequired(max_level)
        /\ (skill_last.pre_level < max_level /\ current_level >= max_level) =>
              /\ skill_last.ret
              /\ current_level = max_level
              /\ current_points = 0
              /\ points = pointsRequired(max_level)

\* addPoints(p), p > 0, has been called on a skill already at its cap.
C19_Witness ==
    /\ skill_last.op = "addPoints"
    /\ skill_last.arg > 0
    /\ max_level > 0
    /\ ~faulted
    /\ skill_last.pre_level >= max_level
    /\ current_level = max_level
    /\ current_points = 0

\* The four operations that take an amount.
AmountOps == {"addPoints", "removePoints", "addLevels", "removeLevels"}

\* C20: a call of addPoints, removePoints, addLevels or removeLevels with
\* amount 0 returns false and leaves current_level, current_points,
\* bonus_level and max_level as they were; a call with a non-zero amount
\* that returns, returns true.
C20_ZeroAmountNoOp ==
    [][skill_last'.op \in AmountOps =>
          IF skill_last'.arg = 0
          THEN /\ ~skill_last'.ret
               /\ UNCHANGED <<current_level, current_points, bonus_level,
                              max_level>>
          ELSE ~faulted' => skill_last'.ret]_vars

\* removeLevels(0, true) was called on a skill that holds points above level 1.
C20_Witness ==
    /\ skill_last.op = "removeLevels"
    /\ skill_last.arg = 0
    /\ skill_last.save
    /\ ~skill_last.ret
    /\ current_level > 1
    /\ current_level = skill_last.pre_level
    /\ current_points = skill_last.pre_points

-----------------------------------------------------------------------------
(* The documented formulas, in exact integer arithmetic                    *)

\* One more than the largest value the point type holds: what an exact
\* value is cut down to once it no longer fits.
TooLarge == PointMax + 1

Capped(n) == IF n > PointMax THEN TooLarge ELSE n

\* min(b^e, TooLarge), by e multiplications.
RECURSIVE CappedPower(_, _)
CappedPower(b, e) ==
    IF e = 0 THEN 1 ELSE Capped(b * CappedPower(b, e - 1))

\* floor(log2(n)) for n >= 1 and floor(sqrt(n)) for n >= 0.
FloorLog2(n) == CHOOSE k \in 0..(4 * LevelBits) : 2^k <= n /\ n < 2^(k + 1)
FloorSqrt(n) == CHOOSE r \in 0..n : r * r <= n /\ n < (r + 1) * (r + 1)

\* Whether the documented formula has a value at this target level.
FormulaDefined(target) ==
    CASE formula = "LOGARITHMIC" -> factor_y * target + factor_z >= 1
      [] formula = "STEP"        -> factor_y # 0
      [] formula = "INVERSE"     -> factor_y + target # 0
      [] OTHER                   -> TRUE

\* The exact value of the documented formula, cut down to TooLarge.
FormulaValue(target) ==
    LET x == factor_x
        y == factor_y
        z == factor_z
    IN  CASE formula = "LINEAR" -> Capped(x * y + z * target)
          [] formula = "LOGARITHMIC" -> Capped(x * FloorLog2(y * target + z))
          [] formula = "EXPONENTIAL" ->
                IF target <= z + 1 THEN x
                ELSE Capped(x * CappedPower(y, target - (z + 1)))
          [] formula = "QUADRATIC" -> Capped(x * target * target + y * target + z)
          [] formula = "CUBIC" -> Capped(x * target * target * target)
          [] formula = "STEP" -> Capped(x * ((target + z) \div y))
          [] formula = "ROOT" -> Capped(x * FloorSqrt(target + y) + z)
          [] formula = "INVERSE" -> Capped(x \div (y + target) + z)

-----------------------------------------------------------------------------
(* CustomSkill: points and progress                                        *)

\* The cost of every level from a to b is non-zero and below the sentinel.
CostsRegular(a, b) ==
    \A k \in a..b : pointsRequired(k) \notin {Fault, 0, PointMax}

\* The sum of pointsRequired(k) for k = a..b.
RECURSIVE SumRequired(_, _)
SumRequired(a, b) ==
    IF a > b THEN 0 ELSE pointsRequired(a) + SumRequired(a + 1, b)

\* C21: on an uncapped skill whose costs of the levels above L are all
\* non-zero and below the sentinel, addPoints(p), p > 0, called at (L, c) with
\* c <= pointsRequired(L + 1) ends at (L2, c2) with L2 >= L,
\* c + p = pointsRequired(L + 1) + ... + pointsRequired(L2) + c2 and
\* c2 < pointsRequired(L2 + 1).
C21_AddPointsConserves ==
    (/\ skill_last.op = "addPoints"
     /\ skill_last.arg > 0
     /\ ~faulted
     /\ max_level = 0
     /\ CostsRegular(skill_last.pre_level + 1, LevelMax + 2)
     /\ skill_last.pre_points <= pointsRequired(skill_last.pre_level + 1)) =>
        /\ current_level >= skill_last.pre_level
        /\ skill_last.pre_points + skill_last.arg
              = SumRequired(skill_last.pre_level + 1, current_level)
                  + current_points
        /\ current_points < pointsRequired(current_level + 1)

\* C22: level(false) is current_level; level(true) is
\* current_level + bonus_level when that signed sum lies in 0..LevelMax - 1
\* and the ceiling LevelMax when the sum is LevelMax or more; setBonus
\* stores its argument in bonus_level and changes neither current_level,
\* current_points nor the construction parameters.
C22_LevelWithBonus ==
    /\ [](LET sum == current_level + bonus_level
          IN  /\ level(FALSE) = current_level
              /\ sum \in 0..(LevelMax - 1) => level(TRUE) = sum
              /\ sum >= LevelMax => level(TRUE) = LevelMax)
    /\ [][skill_last'.op = "setBonus" =>
            /\ bonus_level' = skill_last'.arg
            /\ UNCHANGED <<current_level, current_points, configVars>>]_vars

\* setBonus has lifted the sum of level and bonus beyond the ceiling.
C22_Witness ==
    /\ skill_last.op = "setBonus"
    /\ ~faulted
    /\ bonus_level > 0
    /\ current_level + bonus_level > LevelMax
    /\ level(TRUE) = LevelMax
    /\ level(FALSE) = current_level

\* C23: removePoints(p), p > 0, leaves (current_level, current_points)
\* lexicographically at or below the pair it was called with.
C23_RemovePointsNeverGains ==
    (skill_last.op = "removePoints" /\ skill_last.arg > 0 /\ ~faulted) =>
        \/ current_level < skill_last.pre_level
        \/ /\ current_level = skill_last.pre_level
           /\ current_points <= skill_last.pre_points

\* C24: on a skill below its cap whose next level has a cost that is
\* non-zero and below the sentinel, the stored points do not exceed that
\* cost.
C24_BucketWithinNextCost ==
    (/\ ~faulted
     /\ ShortOfCap
     /\ CostsRegular(current_level + 1, current_level + 1)) =>
        current_points <= pointsRequired(current_level + 1)

=============================================================================
